---------------------------- MODULE Spec2Model ----------------------------
(***************************************************************************)
(* Model of the management command send_email_message                      *)
(* (django_send_email/management/commands/send_email_message.py).          *)
(*                                                                         *)
(* One behaviour is one invocation of Command.handle.  Text that the code  *)
(* inspects (addresses, the message argument, the operator's answer) is a  *)
(* sequence of one-character strings, so that split, strip, lower,         *)
(* startswith, join and format are computed as the code computes them.     *)
(* Fixed output literals are TLA+ strings.                                 *)
(***************************************************************************)
EXTENDS Integers, Sequences, FiniteSets, TLC

VARIABLES
    argv,            \* the parsed command line, as given (never modified)
    settings,        \* django.conf.settings
    fs,              \* the regular files os.path.isfile / open can see
    options,         \* the options dict handle_send_mail reads and mutates
    recipient_list,  \* local recipient_list (line 106)
    lstIdx,          \* position in the tuple (recipient_list, bcc, cc) of line 113
    idx,             \* position of the list iterator of line 116
    pc,              \* position in handle_send_mail / outcome
    raised,          \* the exception that left handle_send_mail, or None
    exitCode,        \* the argument of sys.exit, or None
    stdout,          \* writes to self.stdout
    stderr,          \* writes to self.stderr
    stdinReads,      \* number of sys.stdin.read() calls
    prompts,         \* number of raw_input() calls
    answer,          \* what raw_input returned, or None
    sent             \* the EmailMessage(...).send(...) invocations

vars == <<argv, settings, fs, options, recipient_list, lstIdx, idx, pc, raised,
          exitCode, stdout, stderr, stdinReads, prompts, answer, sent>>

\* Python's None and a present value: an optional value v is None or Some(x)
None == <<>>
Some(x) == <<x>>
Val(v) == v[1]

(***************************************************************************)
(* Bounds of the model.                                                    *)
(***************************************************************************)
\* longest positional recipient list drawn (nargs='+', so at least 1)
MaxRecipients == 2
\* the memory of the process, counted in list entries: list.extend raises
\* MemoryError on a list that would grow beyond it
MaxListLen == 6

(***************************************************************************)
(* Text.                                                                   *)
(***************************************************************************)
UPPER == <<"A","B","C","D","E","F","G","H","I","J","K","L","M",
           "N","O","P","Q","R","S","T","U","V","W","X","Y","Z">>
LOWER == <<"a","b","c","d","e","f","g","h","i","j","k","l","m",
           "n","o","p","q","r","s","t","u","v","w","x","y","z">>

IsUpper(c) == \E i \in 1..Len(UPPER) : UPPER[i] = c
IsLetter(c) == \E i \in 1..Len(UPPER) : UPPER[i] = c \/ LOWER[i] = c

\* str.lower()
LowerChar(c) ==
    IF IsUpper(c) THEN LOWER[CHOOSE i \in 1..Len(UPPER) : UPPER[i] = c] ELSE c
Lower(s) == [i \in 1..Len(s) |-> LowerChar(s[i])]

\* str.startswith(p)
StartsWith(s, p) == Len(s) >= Len(p) /\ SubSeq(s, 1, Len(p)) = p

\* index of the first / last occurrence of character c in s, 0 when absent
FirstIndex(s, c) ==
    IF \E i \in 1..Len(s) : s[i] = c
    THEN CHOOSE i \in 1..Len(s) : s[i] = c /\ \A j \in 1..(i-1) : s[j] # c
    ELSE 0
LastIndex(s, c) ==
    IF \E i \in 1..Len(s) : s[i] = c
    THEN CHOOSE i \in 1..Len(s) : s[i] = c /\ \A j \in (i+1)..Len(s) : s[j] # c
    ELSE 0

\* str.split(sep) for a one-character separator: always at least one field
RECURSIVE Split(_, _)
Split(s, sep) ==
    LET i == FirstIndex(s, sep) IN
    IF i = 0 THEN <<s>>
    ELSE <<SubSeq(s, 1, i-1)>> \o Split(SubSeq(s, i+1, Len(s)), sep)

\* str.strip(): leading and trailing blanks removed
RECURSIVE LStrip(_)
LStrip(s) == IF s # <<>> /\ Head(s) = " " THEN LStrip(Tail(s)) ELSE s
RECURSIVE RStrip(_)
RStrip(s) ==
    IF s # <<>> /\ s[Len(s)] = " " THEN RStrip(SubSeq(s, 1, Len(s)-1)) ELSE s
Strip(s) == RStrip(LStrip(s))

\* sep.join(list)
RECURSIVE Join(_, _)
Join(sep, l) ==
    IF l = <<>> THEN <<>>
    ELSE IF Len(l) = 1 THEN l[1]
    ELSE l[1] \o sep \o Join(sep, Tail(l))

\* list.remove(x): the FIRST entry equal to x is removed
RemoveFirst(l, x) ==
    LET i == FirstIndex(l, x) IN
    SubSeq(l, 1, i-1) \o SubSeq(l, i+1, Len(l))

(***************************************************************************)
(* Literals of the program and of the inputs drawn.                        *)
(***************************************************************************)
ADMINS   == <<"A","D","M","I","N","S">>
MANAGERS == <<"M","A","N","A","G","E","R","S">>
DASH     == <<"-">>

ADDR_A   == <<"a","@","x",".","c","o","m">>
ADDR_B   == <<"b","@","x",".","c","o","m">>
ROOT     == <<"r","o","o","t","@","x",".","c","o","m">>
OPS      == <<"o","p","s","@","x",".","c","o","m">>
MGR      == <<"m","g","r","@","x",".","c","o","m">>
NO_AT    == <<"b","a","d">>
NO_LOCAL == <<"@","x",".","c","o","m">>
WEBMASTER == <<"w","e","b","@","l","o","c","a","l","h","o","s","t">>
SENDER   == <<"m","e","@","x",".","c","o","m">>
LOCALHOST == <<"l","o","c","a","l","h","o","s","t">>

HELLO    == <<"H","e","l","l","o">>
PREFIX   == <<"[","D","j","]"," ">>
HI_THERE == <<"H","i">>
MSG_PATH == <<"m",".","t","x","t">>
FILE_TEXT  == <<"f","i","l","e">>
STDIN_TEXT == <<"s","t","d","i","n">>

CONFIRM_MESSAGE == "CONFIRM_MESSAGE"
CANCELLED_MSG == "Operation cancelled.\n"
SENT_MSG == "Message sent\n"


(***************************************************************************)
(* django.core.validators.validate_email, over the characters drawn:       *)
(* the text holds an "@"; it is cut at the LAST "@"; the user part is a    *)
(* dot-atom; the domain is "localhost" or dot-separated labels the last of *)
(* which has at least two characters.                                      *)
(***************************************************************************)
IsLabel(s) == s # <<>> /\ \A i \in 1..Len(s) : IsLetter(s[i])

IsDotAtom(s) == \A i \in 1..Len(Split(s, ".")) : IsLabel(Split(s, ".")[i])

IsDomain(s) ==
    LET labels == Split(s, ".") IN
    \/ s = LOCALHOST
    \/ /\ Len(labels) >= 2
       /\ \A i \in 1..Len(labels) : IsLabel(labels[i])
       /\ Len(labels[Len(labels)]) >= 2

ValidEmail(s) ==
    LET at == LastIndex(s, "@") IN
    /\ at # 0
    /\ IsDotAtom(SubSeq(s, 1, at-1))
    /\ IsDomain(SubSeq(s, at+1, Len(s)))

\* line 117: recipient in ('ADMINS', 'MANAGERS')
IsGroupToken(r) == r \in {ADMINS, MANAGERS}

\* line 107: get_addresses = lambda l: [a[1] for a in getattr(settings, l, ())]
get_addresses(l) ==
    LET group == IF l = ADMINS THEN settings.ADMINS ELSE settings.MANAGERS
        pairs == IF group = None THEN <<>> ELSE Val(group)
    IN  [i \in 1..Len(pairs) |-> pairs[i][2]]

\* line 111: [a.strip() for a in options[copy].split(',')]
SplitCopy(raw) ==
    LET fields == Split(raw, ",") IN [i \in 1..Len(fields) |-> Strip(fields[i])]

\* line 110: the truth value of options[copy] (None and '' are false)
Truthy(v) == v # None /\ Val(v) # <<>>

\* variant: the group's addresses take the place of the group name
ExpandToken_InPlace(lst, recipient) ==
    LET i == FirstIndex(lst, recipient) IN
    SubSeq(lst, 1, i-1) \o get_addresses(recipient) \o SubSeq(lst, i+1, Len(lst))

\* lines 118-119: lst.remove(recipient); lst.extend(get_addresses(recipient))
ExpandToken(lst, recipient) ==
    RemoveFirst(lst, recipient) \o get_addresses(recipient)

\* variant: the last entry of the list is not validated
FirstInvalid_IgnoresLast(lst) ==
    IF \E i \in 1..(Len(lst)-1) : ~ValidEmail(lst[i])
    THEN CHOOSE i \in 1..(Len(lst)-1) :
            ~ValidEmail(lst[i]) /\ \A j \in 1..(i-1) : ValidEmail(lst[j])
    ELSE 0

\* variant: the position of the last entry validate_email rejects
FirstInvalid_Last(lst) ==
    IF \E i \in 1..Len(lst) : ~ValidEmail(lst[i])
    THEN CHOOSE i \in 1..Len(lst) :
            ~ValidEmail(lst[i]) /\ \A j \in (i+1)..Len(lst) : ValidEmail(lst[j])
    ELSE 0

\* lines 121-125: position of the first entry validate_email rejects, 0 if none
FirstInvalid(lst) ==
    IF \E i \in 1..Len(lst) : ~ValidEmail(lst[i])
    THEN CHOOSE i \in 1..Len(lst) :
            ~ValidEmail(lst[i]) /\ \A j \in 1..(i-1) : ValidEmail(lst[j])
    ELSE 0

\* variant: the prefix is applied whatever noprefix says
PrefixedSubject_Always(noprefix, subject) ==
    settings.EMAIL_SUBJECT_PREFIX \o subject

\* line 128: '{}{}'.format('' if noprefix else settings.EMAIL_SUBJECT_PREFIX, subject)
PrefixedSubject(noprefix, subject) ==
    (IF noprefix THEN <<>> ELSE settings.EMAIL_SUBJECT_PREFIX) \o subject

\* lines 130-131: the sender
FromEmail(from_email) ==
    IF from_email = None THEN Some(settings.DEFAULT_FROM_EMAIL) ELSE from_email

\* line 135: ', '.join(options[lst] or [])
Formatted(v) == Join(<<",", " ">>, IF Truthy(v) THEN Val(v) ELSE <<>>)

\* variant: the answer is not lower-cased
Declines_CaseSensitive(a) == StartsWith(a, <<"n">>)

\* line 139: raw_input(...).lower().startswith('n')
Declines(a) == StartsWith(Lower(a), <<"n">>)

\* variant: the operator is never asked
NeedsConfirm_Never(opts) == FALSE

\* line 138: whether the operator is asked
NeedsConfirm(opts) == opts.interactive

\* line 93: os.path.isfile(message)
isfile(path) == \E f \in fs : f.path = path
Readable(path) == \E f \in fs : f.path = path /\ f.readable

\* lines 48-86: the options argparse builds from the command line
ParseOptions(cl) ==
    [ subject       |-> cl.subject,
      message       |-> cl.message,
      recipient     |-> cl.recipient,
      interactive   |-> ~cl.no_input,       \* --no-input: store_false, default True
      from_email    |-> cl.from,            \* -f: default None
      fail_silently |-> cl.raise_error,     \* -r: store_true, dest fail_silently
      noprefix      |-> cl.noprefix,        \* -n: store_true
      bcc           |-> cl.bcc,             \* -b: default None
      cc            |-> cl.cc,              \* -c: default None
      verbosity     |-> cl.verbosity,
      recipient_list           |-> None,
      recipient_list_formatted |-> None,
      cc_formatted             |-> None ]

\* the tuple of line 113: (recipient_list, options['bcc'], options['cc'])
ListAt(k) ==
    IF k = 1 THEN Some(recipient_list)
    ELSE IF k = 2 THEN options.bcc ELSE options.cc
NumLists == 3

(***************************************************************************)
(* The invocations drawn.                                                  *)
(***************************************************************************)
NAME == <<"n">>

\* ADMINS and MANAGERS hold plain addresses
PlainSettings ==
    [ ADMINS   |-> Some(<< <<NAME, ROOT>>, <<NAME, OPS>> >>),
      MANAGERS |-> Some(<< <<NAME, MGR>> >>),
      EMAIL_SUBJECT_PREFIX |-> PREFIX,
      DEFAULT_FROM_EMAIL   |-> WEBMASTER ]
\* ADMINS is not set, MANAGERS is empty, the prefix is empty
EmptySettings ==
    [ ADMINS   |-> None,
      MANAGERS |-> Some(<<>>),
      EMAIL_SUBJECT_PREFIX |-> <<>>,
      DEFAULT_FROM_EMAIL   |-> WEBMASTER ]
\* ADMINS lists the text "ADMINS" twice, MANAGERS an address without "@"
SelfSettings ==
    [ ADMINS   |-> Some(<< <<NAME, ADMINS>>, <<NAME, ADMINS>> >>),
      MANAGERS |-> Some(<< <<NAME, NO_AT>> >>),
      EMAIL_SUBJECT_PREFIX |-> PREFIX,
      DEFAULT_FROM_EMAIL   |-> WEBMASTER ]
\* each group lists the other group's name
CrossSettings ==
    [ ADMINS   |-> Some(<< <<NAME, MANAGERS>> >>),
      MANAGERS |-> Some(<< <<NAME, ADMINS>> >>),
      EMAIL_SUBJECT_PREFIX |-> PREFIX,
      DEFAULT_FROM_EMAIL   |-> WEBMASTER ]

SeqsUpTo(S, n) == UNION { [1..k -> S] : k \in 1..n }

RecipientValues == {ADDR_A, NO_AT, ADMINS, MANAGERS}
Recipients == SeqsUpTo(RecipientValues, MaxRecipients)

\* --cc: absent, '', 'b@x.com, ADMINS', 'ADMINS,MANAGERS', '@x.com'
CcValues ==
    { None, Some(<<>>), Some(ADDR_B \o <<",", " ">> \o ADMINS),
      Some(ADMINS \o <<",">> \o MANAGERS), Some(NO_LOCAL) }
\* --bcc: absent, ' MANAGERS ,b@x.com', 'bad'
BccValues ==
    { None, Some(<<" ">> \o MANAGERS \o <<" ", ",">> \o ADDR_B), Some(NO_AT) }

\* what raw_input may return
Answers == { <<>>, <<"y">>, <<"Y","e","s">>, <<"n">>, <<"N","o">>, <<" ","n">> }

\* the message argument with the files that exist beside it
MessageAndFiles ==
    { <<HI_THERE, {}>>,
      <<MSG_PATH, {}>>,
      <<MSG_PATH, {[path |-> MSG_PATH, readable |-> TRUE]}>>,
      <<MSG_PATH, {[path |-> MSG_PATH, readable |-> FALSE]}>>,
      <<DASH, {}>>,
      <<DASH, {[path |-> DASH, readable |-> TRUE]}>> }

\* every recipient, --bcc, --cc and settings combination, default flags
ListInvocations ==
    { <<cl, st, {}>> :
        cl \in [ subject : {HELLO}, message : {HI_THERE},
                 recipient : Recipients, no_input : {FALSE}, from : {None},
                 raise_error : {FALSE}, noprefix : {FALSE},
                 bcc : BccValues, cc : CcValues, verbosity : {1} ],
        st \in {PlainSettings, EmptySettings, SelfSettings, CrossSettings} }

\* every flag, message source and file combination, few recipient lists
FlagInvocations ==
    { <<[ subject |-> sj, message |-> mf[1], recipient |-> rc,
          no_input |-> fl.no_input, from |-> fr,
          raise_error |-> fl.raise_error, noprefix |-> fl.noprefix,
          bcc |-> None, cc |-> c, verbosity |-> vb ], st, mf[2]>> :
        sj \in {HELLO, <<>>}, mf \in MessageAndFiles,
        rc \in {<<ADDR_A>>, <<ADDR_B, ADMINS>>},
        fl \in [no_input : BOOLEAN, raise_error : BOOLEAN, noprefix : BOOLEAN],
        fr \in {None, Some(SENDER), Some(<<>>)}, c \in {None, Some(ADDR_B)},
        vb \in {1, 2}, st \in {PlainSettings, EmptySettings} }

Invocations == ListInvocations \cup FlagInvocations

\* the invocations the termination property is checked on: every recipient
\* list under every settings, and every message source with the flags that
\* decide how the invocation ends
TerminationInvocations ==
    { <<cl, st, {}>> :
        cl \in [ subject : {HELLO}, message : {HI_THERE},
                 recipient : Recipients, no_input : {FALSE}, from : {None},
                 raise_error : {FALSE}, noprefix : {FALSE}, bcc : {None},
                 cc : {None, Some(ADDR_B \o <<",", " ">> \o ADMINS)},
                 verbosity : {1} ],
        st \in {PlainSettings, EmptySettings, SelfSettings, CrossSettings} }
    \cup
    { <<[ subject |-> HELLO, message |-> mf[1], recipient |-> <<ADDR_A>>,
          no_input |-> fl.no_input, from |-> None,
          raise_error |-> fl.raise_error, noprefix |-> FALSE,
          bcc |-> None, cc |-> None, verbosity |-> 1 ], PlainSettings, mf[2]>> :
        mf \in MessageAndFiles,
        fl \in [no_input : BOOLEAN, raise_error : BOOLEAN] }

NoException == [type |-> "None"]

InitFrom(invocations) ==
    \E inv \in invocations :
        /\ argv = inv[1]
        /\ settings = inv[2]
        /\ fs = inv[3]
        /\ options = ParseOptions(inv[1])
        /\ recipient_list = <<>>
        /\ lstIdx = 1
        /\ idx = 1
        /\ pc = "start"
        /\ raised = NoException
        /\ exitCode = None
        /\ stdout = <<>>
        /\ stderr = <<>>
        /\ stdinReads = 0
        /\ prompts = 0
        /\ answer = None
        /\ sent = <<>>

Init == InitFrom(Invocations)

(***************************************************************************)
(* handle_send_mail, lines 88-153.                                         *)
(***************************************************************************)
CommandError(what, arg) == [type |-> "CommandError", what |-> what, arg |-> arg]

\* variant: reading stdin leaves the confirmation on
StdinOptions_KeepsInteractive(opts, text) == [opts EXCEPT !.message = text]

\* lines 101-102: the body read from stdin, and no confirmation afterwards
StdinOptions(opts, text) ==
    [opts EXCEPT !.message = text, !.interactive = FALSE]

\* lines 93-96, 104: the message names a readable file
ReadMessageFile ==
    /\ pc = "start"
    /\ isfile(options.message) /\ Readable(options.message)
    /\ options' = [options EXCEPT !.message = FILE_TEXT]
    /\ pc' = "copies"
    /\ UNCHANGED <<argv, settings, fs, recipient_list, lstIdx, idx, raised,
                   exitCode, stdout, stderr, stdinReads, prompts, answer, sent>>

\* lines 93-98: the message names a file that open() or read() fails on
ReadMessageFileError ==
    /\ pc = "start"
    /\ isfile(options.message) /\ ~Readable(options.message)
    /\ raised' = CommandError("Error reading message file", options.message)
    /\ pc' = "error"
    /\ UNCHANGED <<argv, settings, fs, options, recipient_list, lstIdx, idx,
                   exitCode, stdout, stderr, stdinReads, prompts, answer, sent>>

\* lines 99-104: the message is "-" and no file has that name
ReadStdin ==
    /\ pc = "start"
    /\ ~isfile(options.message) /\ options.message = DASH
    /\ stdinReads' = stdinReads + 1
    /\ options' = StdinOptions(options, STDIN_TEXT)
    /\ pc' = "copies"
    /\ UNCHANGED <<argv, settings, fs, recipient_list, lstIdx, idx, raised,
                   exitCode, stdout, stderr, prompts, answer, sent>>

\* lines 93, 99, 104: the message is the body itself
LiteralMessage ==
    /\ pc = "start"
    /\ ~isfile(options.message) /\ options.message # DASH
    /\ pc' = "copies"
    /\ UNCHANGED <<argv, settings, fs, options, recipient_list, lstIdx, idx,
                   raised, exitCode, stdout, stderr, stdinReads, prompts,
                   answer, sent>>

\* lines 106-111: the recipients are copied, --bcc and --cc are split
SplitCopies ==
    /\ pc = "copies"
    /\ recipient_list' = options.recipient
    /\ options' =
         [options EXCEPT
            !.bcc = IF Truthy(@) THEN Some(SplitCopy(Val(@))) ELSE @,
            !.cc  = IF Truthy(@) THEN Some(SplitCopy(Val(@))) ELSE @]
    /\ lstIdx' = 1
    /\ pc' = "for_lst"
    /\ UNCHANGED <<argv, settings, fs, idx, raised, exitCode, stdout, stderr,
                   stdinReads, prompts, answer, sent>>

\* line 113: the tuple is exhausted
ListsDone ==
    /\ pc = "for_lst"
    /\ lstIdx > NumLists
    /\ pc' = "defaults"
    /\ UNCHANGED <<argv, settings, fs, options, recipient_list, lstIdx, idx,
                   raised, exitCode, stdout, stderr, stdinReads, prompts,
                   answer, sent>>

\* lines 114-115: if not lst: continue
SkipList ==
    /\ pc = "for_lst"
    /\ lstIdx <= NumLists
    /\ ~Truthy(ListAt(lstIdx))
    /\ lstIdx' = lstIdx + 1
    /\ UNCHANGED <<argv, settings, fs, options, recipient_list, idx, pc,
                   raised, exitCode, stdout, stderr, stdinReads, prompts,
                   answer, sent>>

\* line 116: the iterator over lst is created
EnterList ==
    /\ pc = "for_lst"
    /\ lstIdx <= NumLists
    /\ Truthy(ListAt(lstIdx))
    /\ idx' = 1
    /\ pc' = "expand"
    /\ UNCHANGED <<argv, settings, fs, options, recipient_list, lstIdx,
                   raised, exitCode, stdout, stderr, stdinReads, prompts,
                   answer, sent>>

\* the list the tuple holds at lstIdx is mutated in place
SetList(new) ==
    /\ recipient_list' = IF lstIdx = 1 THEN new ELSE recipient_list
    /\ options' = IF lstIdx = 2 THEN [options EXCEPT !.bcc = Some(new)]
                  ELSE IF lstIdx = 3 THEN [options EXCEPT !.cc = Some(new)]
                  ELSE options

\* lines 116-119: the iterator yields a group name; the list is changed
\* under the iterator, which then moves to the next index
ExpandGroup ==
    /\ pc = "expand"
    /\ LET lst == Val(ListAt(lstIdx)) IN
       /\ idx <= Len(lst)
       /\ IsGroupToken(lst[idx])
       /\ Len(ExpandToken(lst, lst[idx])) <= MaxListLen
       /\ SetList(ExpandToken(lst, lst[idx]))
    /\ idx' = idx + 1
    /\ UNCHANGED <<argv, settings, fs, lstIdx, pc, raised, exitCode, stdout,
                   stderr, stdinReads, prompts, answer, sent>>

\* line 119: lst.extend cannot allocate the grown list
ExpandMemoryError ==
    /\ pc = "expand"
    /\ LET lst == Val(ListAt(lstIdx)) IN
       /\ idx <= Len(lst)
       /\ IsGroupToken(lst[idx])
       /\ Len(ExpandToken(lst, lst[idx])) > MaxListLen
       /\ SetList(RemoveFirst(lst, lst[idx]))
    /\ raised' = [type |-> "MemoryError"]
    /\ pc' = "error"
    /\ UNCHANGED <<argv, settings, fs, lstIdx, idx, exitCode, stdout, stderr,
                   stdinReads, prompts, answer, sent>>

\* lines 116-117: the iterator yields an entry that is no group name
ExpandPass ==
    /\ pc = "expand"
    /\ LET lst == Val(ListAt(lstIdx)) IN
       /\ idx <= Len(lst)
       /\ ~IsGroupToken(lst[idx])
    /\ idx' = idx + 1
    /\ UNCHANGED <<argv, settings, fs, options, recipient_list, lstIdx, pc,
                   raised, exitCode, stdout, stderr, stdinReads, prompts,
                   answer, sent>>

\* line 116: the iterator is past the end of the list
ExpandDone ==
    /\ pc = "expand"
    /\ idx > Len(Val(ListAt(lstIdx)))
    /\ pc' = "validate"
    /\ UNCHANGED <<argv, settings, fs, options, recipient_list, lstIdx, idx,
                   raised, exitCode, stdout, stderr, stdinReads, prompts,
                   answer, sent>>

\* lines 121-125: an entry of lst is rejected
ValidateFail ==
    /\ pc = "validate"
    /\ LET lst == Val(ListAt(lstIdx)) IN
       /\ FirstInvalid(lst) # 0
       /\ raised' = CommandError("is not a valid email address",
                                 lst[FirstInvalid(lst)])
    /\ pc' = "error"
    /\ UNCHANGED <<argv, settings, fs, options, recipient_list, lstIdx, idx,
                   exitCode, stdout, stderr, stdinReads, prompts, answer, sent>>

\* lines 121-125, 113: every entry of lst is accepted; on to the next list
ValidateOk ==
    /\ pc = "validate"
    /\ FirstInvalid(Val(ListAt(lstIdx))) = 0
    /\ lstIdx' = lstIdx + 1
    /\ pc' = "for_lst"
    /\ UNCHANGED <<argv, settings, fs, options, recipient_list, idx, raised,
                   exitCode, stdout, stderr, stdinReads, prompts, answer, sent>>

\* line 133: whether the preview is written
ShowsPreview(opts) == opts.verbosity > 1 \/ opts.interactive

\* CONFIRM_MESSAGE.format(**options), lines 19-28 and 136
Preview(opts) ==
    [ text      |-> CONFIRM_MESSAGE,
      Subject   |-> opts.subject,
      From      |-> Val(opts.from_email),
      To        |-> Val(opts.recipient_list_formatted),
      Cc        |-> Val(opts.cc_formatted),
      message   |-> opts.message ]

\* lines 127-131: recipient_list, subject and from_email of the request
WithDefaults(opts) ==
    [opts EXCEPT
        !.recipient_list = Some(recipient_list),
        !.subject = PrefixedSubject(opts.noprefix, opts.subject),
        !.from_email = FromEmail(opts.from_email)]

\* lines 134-135: the joined lists
WithFormatted(opts) ==
    [opts EXCEPT
        !.recipient_list_formatted = Some(Formatted(opts.recipient_list)),
        !.cc_formatted = Some(Formatted(opts.cc))]

\* lines 127-136: the request is completed and, when asked for, previewed
Defaults ==
    /\ pc = "defaults"
    /\ LET d == WithDefaults(options) IN
       IF ShowsPreview(d)
       THEN /\ options' = WithFormatted(d)
            /\ stdout' = Append(stdout, Preview(WithFormatted(d)))
       ELSE /\ options' = d
            /\ stdout' = stdout
    /\ pc' = "confirm"
    /\ UNCHANGED <<argv, settings, fs, recipient_list, lstIdx, idx, raised,
                   exitCode, stderr, stdinReads, prompts, answer, sent>>

\* line 138: no confirmation is asked for
ConfirmSkip ==
    /\ pc = "confirm"
    /\ ~NeedsConfirm(options)
    /\ pc' = "send"
    /\ UNCHANGED <<argv, settings, fs, options, recipient_list, lstIdx, idx,
                   raised, exitCode, stdout, stderr, stdinReads, prompts,
                   answer, sent>>

\* lines 138-141: the operator answers and the answer declines
ConfirmDecline ==
    /\ pc = "confirm"
    /\ NeedsConfirm(options)
    /\ \E a \in Answers :
          /\ Declines(a)
          /\ answer' = Some(a)
    /\ prompts' = prompts + 1
    /\ stderr' = Append(stderr, CANCELLED_MSG)
    /\ exitCode' = Some(1)
    /\ pc' = "exit"
    /\ UNCHANGED <<argv, settings, fs, options, recipient_list, lstIdx, idx,
                   raised, stdout, stdinReads, sent>>

\* lines 138-139: the operator answers and the answer does not decline
ConfirmProceed ==
    /\ pc = "confirm"
    /\ NeedsConfirm(options)
    /\ \E a \in Answers :
          /\ ~Declines(a)
          /\ answer' = Some(a)
    /\ prompts' = prompts + 1
    /\ pc' = "send"
    /\ UNCHANGED <<argv, settings, fs, options, recipient_list, lstIdx, idx,
                   raised, exitCode, stdout, stderr, stdinReads, sent>>

\* lines 143-150: the message built and the send invoked, with the mailer's result
SendCall(opts, result) ==
    [ subject       |-> opts.subject,
      body          |-> opts.message,
      from_email    |-> Val(opts.from_email),
      to            |-> Val(opts.recipient_list),
      bcc           |-> opts.bcc,
      cc            |-> opts.cc,
      fail_silently |-> opts.fail_silently,
      result        |-> result ]

\* lines 143-153: the mailer delivers
SendDelivered ==
    /\ pc = "send"
    /\ sent' = Append(sent, SendCall(options, "delivered"))
    /\ stdout' = IF options.verbosity > 1 THEN Append(stdout, SENT_MSG) ELSE stdout
    /\ pc' = "done"
    /\ UNCHANGED <<argv, settings, fs, options, recipient_list, lstIdx, idx,
                   raised, exitCode, stderr, stdinReads, prompts, answer>>

\* lines 143-153: the mailer fails and send(fail_silently=True) swallows it
SendFailsSilently ==
    /\ pc = "send"
    /\ options.fail_silently
    /\ sent' = Append(sent, SendCall(options, "failed"))
    /\ stdout' = IF options.verbosity > 1 THEN Append(stdout, SENT_MSG) ELSE stdout
    /\ pc' = "done"
    /\ UNCHANGED <<argv, settings, fs, options, recipient_list, lstIdx, idx,
                   raised, exitCode, stderr, stdinReads, prompts, answer>>

\* lines 143-150: the mailer fails and send(fail_silently=False) raises
SendRaises ==
    /\ pc = "send"
    /\ ~options.fail_silently
    /\ sent' = Append(sent, SendCall(options, "failed"))
    /\ raised' = [type |-> "MailError"]
    /\ pc' = "error"
    /\ UNCHANGED <<argv, settings, fs, options, recipient_list, lstIdx, idx,
                   exitCode, stdout, stderr, stdinReads, prompts, answer>>

(***************************************************************************)
(* handle, lines 155-160: KeyboardInterrupt.                               *)
(***************************************************************************)
Running == {"start", "copies", "for_lst", "expand", "validate", "defaults",
            "confirm", "send"}

\* the operator interrupts before send() is invoked
Interrupt ==
    /\ pc \in Running
    /\ raised' = [type |-> "KeyboardInterrupt", at |-> pc]
    /\ stderr' = Append(stderr, CANCELLED_MSG)
    /\ exitCode' = Some(1)
    /\ pc' = "exit"
    /\ UNCHANGED <<argv, settings, fs, options, recipient_list, lstIdx, idx,
                   stdout, stdinReads, prompts, answer, sent>>

\* the operator interrupts while send() runs
InterruptSend ==
    /\ pc = "send"
    /\ sent' = Append(sent, SendCall(options, "interrupted"))
    /\ raised' = [type |-> "KeyboardInterrupt", at |-> "sending"]
    /\ stderr' = Append(stderr, CANCELLED_MSG)
    /\ exitCode' = Some(1)
    /\ pc' = "exit"
    /\ UNCHANGED <<argv, settings, fs, options, recipient_list, lstIdx, idx,
                   stdout, stdinReads, prompts, answer>>

\* lines 116-119: one iteration, or the end, of the expansion loop
ExpandLoop == ExpandGroup \/ ExpandMemoryError \/ ExpandPass \/ ExpandDone

\* the steps the interpreter takes by itself
Step ==
    \/ ReadMessageFile \/ ReadMessageFileError \/ ReadStdin \/ LiteralMessage
    \/ SplitCopies
    \/ ListsDone \/ SkipList \/ EnterList
    \/ ExpandLoop
    \/ ValidateFail \/ ValidateOk
    \/ Defaults
    \/ ConfirmSkip \/ ConfirmDecline \/ ConfirmProceed
    \/ SendDelivered \/ SendFailsSilently \/ SendRaises

Next == Step \/ Interrupt \/ InterruptSend

Spec == Init /\ [][Next]_vars

\* the interpreter keeps iterating the expansion loop once it has entered it
FairSpec ==
    InitFrom(TerminationInvocations) /\ [][Next]_vars /\ WF_vars(ExpandLoop)

(***************************************************************************)
(* Vocabulary of the properties.                                           *)
(***************************************************************************)
GroupTokens == {ADMINS, MANAGERS}

\* the entries an optional list holds ('' and None hold none)
Entries(v) == IF Truthy(v) THEN Val(v) ELSE <<>>

\* list k of (to, bcc, cc) as the command line gave it, before expansion
InputList(k) ==
    IF k = 1 THEN argv.recipient
    ELSE IF k = 2 THEN (IF Truthy(argv.bcc) THEN SplitCopy(Val(argv.bcc)) ELSE <<>>)
    ELSE (IF Truthy(argv.cc) THEN SplitCopy(Val(argv.cc)) ELSE <<>>)

\* both group lookups return plain addresses only
PlainLookups ==
    \A t \in GroupTokens :
        \A i \in 1..Len(get_addresses(t)) : get_addresses(t)[i] \notin GroupTokens

NotToken(r) == r \notin GroupTokens
Count(l, x) == Cardinality({i \in 1..Len(l) : l[i] = x})
Range(l) == {l[i] : i \in 1..Len(l)}
AllValid(l) == \A i \in 1..Len(l) : ValidEmail(l[i])

\* a is obtained from b by deleting entries
RECURSIVE IsSubseq(_, _)
IsSubseq(a, b) ==
    IF a = <<>> THEN TRUE
    ELSE IF b = <<>> THEN FALSE
    ELSE IF Head(a) = Head(b) THEN IsSubseq(Tail(a), Tail(b))
    ELSE IsSubseq(a, Tail(b))

\* the expansion loop over the list at lstIdx has just finished
JustExpanded == pc = "validate"

\* the invocation ended cancelled: exit code 1, "Operation cancelled." last
\* on stderr
Cancelled ==
    /\ pc = "exit"
    /\ exitCode = Some(1)
    /\ stderr # <<>> /\ stderr[Len(stderr)] = CANCELLED_MSG

InterruptedBeforeSend ==
    raised.type = "KeyboardInterrupt" /\ raised.at # "sending"

(***************************************************************************)
(* C1.  Recipient resolution resolves every group token: when the lookups  *)
(* return plain addresses only, the resolved list holds no "ADMINS" or     *)
(* "MANAGERS" entry, holds each token's lookup result once per occurrence  *)
(* of the token in the input, and keeps the non-token entries in their     *)
(* original relative order.                                                *)
(***************************************************************************)
C1_ResolvesEveryToken ==
    (JustExpanded /\ PlainLookups) =>
        LET lst == Val(ListAt(lstIdx))
            inp == InputList(lstIdx)
        IN  /\ \A i \in 1..Len(lst) : NotToken(lst[i])
            /\ \A a \in (Range(lst) \cup Range(inp)
                         \cup Range(get_addresses(ADMINS))
                         \cup Range(get_addresses(MANAGERS))) \ GroupTokens :
                  Count(lst, a) =
                      Count(inp, a)
                      + Count(inp, ADMINS) * Count(get_addresses(ADMINS), a)
                      + Count(inp, MANAGERS) * Count(get_addresses(MANAGERS), a)
            /\ IsSubseq(SelectSeq(inp, NotToken), lst)

(***************************************************************************)
(* C2.  -r/--raise-error makes delivery failures propagate: when the       *)
(* mailer fails, the invocation ends with the failure raised if the flag   *)
(* was given, and ends as a success if it was not.                         *)
(***************************************************************************)
C2_RaiseErrorPropagates ==
    \A i \in 1..Len(sent) :
        sent[i].result = "failed" =>
            IF argv.raise_error
            THEN pc = "error" /\ raised.type = "MailError"
            ELSE pc = "done" /\ raised.type = "None"

(***************************************************************************)
(* C3.  Cancellation never sends: when the operator's answer to the        *)
(* confirmation begins with "n" or "N", or the operator interrupts before  *)
(* the send, the invocation ends cancelled (exit code 1, "Operation        *)
(* cancelled.") and send is never invoked.                                 *)
(***************************************************************************)
C3_CancellationNeverSends ==
    /\ (answer # None /\ Val(answer) # <<>> /\ Val(answer)[1] \in {"n", "N"})
          => (Cancelled /\ sent = <<>>)
    /\ InterruptedBeforeSend => (Cancelled /\ sent = <<>>)

\* the operator answered "No" and the invocation is over
C3_Witness ==
    /\ answer = Some(<<"N","o">>)
    /\ prompts = 1
    /\ pc = "exit"

(***************************************************************************)
(* C4.  Validity at send: every entry of the to, cc and bcc lists handed   *)
(* to send is a valid email address, and none is a group name.             *)
(***************************************************************************)
C4_ValidAtSend ==
    \A i \in 1..Len(sent) :
        \A l \in {sent[i].to, Entries(sent[i].cc), Entries(sent[i].bcc)} :
            \A j \in 1..Len(l) : ValidEmail(l[j]) /\ NotToken(l[j])

\* a send whose three lists all hold entries, the to list grown by a group
C4_Witness ==
    /\ Len(sent) = 1
    /\ Len(sent[1].to) > Len(argv.recipient)
    /\ Entries(sent[1].cc) # <<>>
    /\ Entries(sent[1].bcc) # <<>>

(***************************************************************************)
(* C5.  Validation is fail-fast: the error names the first invalid entry   *)
(* of the first of the lists to, bcc, cc that holds one, and neither the   *)
(* preview, the prompt nor the send happens.                               *)
(***************************************************************************)
IsFirstInvalidOf(a, l) ==
    \E p \in 1..Len(l) :
        /\ l[p] = a
        /\ ~ValidEmail(l[p])
        /\ \A j \in 1..(p-1) : ValidEmail(l[j])

C5_FailFast ==
    (raised.type = "CommandError" /\ raised.what = "is not a valid email address")
    =>  /\ pc = "error"
        /\ prompts = 0 /\ stdout = <<>> /\ sent = <<>>
        /\ IF ~AllValid(recipient_list)
           THEN IsFirstInvalidOf(raised.arg, recipient_list)
           ELSE IF ~AllValid(Entries(options.bcc))
           THEN IsFirstInvalidOf(raised.arg, Entries(options.bcc))
           ELSE IsFirstInvalidOf(raised.arg, Entries(options.cc))

\* the to list holds two invalid entries and --bcc one; the first is named
C5_Witness ==
    /\ pc = "error"
    /\ recipient_list = <<NO_AT, MANAGERS>>
    /\ Entries(options.bcc) = <<NO_AT>>
    /\ raised.type = "CommandError"
    /\ raised.arg = NO_AT

(***************************************************************************)
(* C6 (as stated).  Whenever the message argument is "-", standard input   *)
(* is read exactly once as the body and no confirmation prompt is issued.  *)
(***************************************************************************)
BodyResolved ==
    /\ pc # "start"
    /\ ~(raised.type = "KeyboardInterrupt" /\ raised.at = "start")

C6_DashDisablesConfirm ==
    argv.message = DASH =>
        /\ prompts = 0
        /\ stdinReads <= 1
        /\ BodyResolved => (stdinReads = 1 /\ options.message = STDIN_TEXT)

(***************************************************************************)
(* C6 (amended).  Whenever the message argument is "-" and no file named   *)
(* "-" exists, standard input is read exactly once as the body and no      *)
(* confirmation prompt is issued, whatever --no-input and the other flags. *)
(***************************************************************************)
C6_DashWithoutFileDisablesConfirm ==
    (argv.message = DASH /\ ~isfile(DASH)) =>
        /\ prompts = 0
        /\ stdinReads <= 1
        /\ BodyResolved => (stdinReads = 1 /\ options.message = STDIN_TEXT)

\* "-" without --no-input: the message went out and nobody was asked
C6_Witness ==
    /\ argv.message = DASH /\ ~isfile(DASH)
    /\ ~argv.no_input
    /\ Len(sent) = 1
    /\ sent[1].body = STDIN_TEXT
    /\ prompts = 0

(***************************************************************************)
(* C7.  Defaults: the subject sent is the configured prefix directly       *)
(* followed by the subject given, or the subject given when noprefix is    *)
(* set; the sender is the --from value when given, else the default.       *)
(***************************************************************************)
C7_Defaults ==
    \A i \in 1..Len(sent) :
        /\ sent[i].subject =
               IF argv.noprefix THEN argv.subject
               ELSE settings.EMAIL_SUBJECT_PREFIX \o argv.subject
        /\ sent[i].from_email =
               IF argv.from # None THEN Val(argv.from)
               ELSE settings.DEFAULT_FROM_EMAIL

\* a send with noprefix set under a non-empty prefix, and the default sender
C7_Witness ==
    /\ Len(sent) = 1
    /\ argv.noprefix
    /\ settings.EMAIL_SUBJECT_PREFIX # <<>>
    /\ argv.subject # <<>>
    /\ argv.from = None

(***************************************************************************)
(* C8.  Single confirmed send: with no flags and the body not taken from   *)
(* stdin, the request is complete (body, recipients resolved and valid,    *)
(* prefix, default sender) when the prompt is issued; nothing is sent      *)
(* before the answer; after the answer "y" send is invoked exactly once,   *)
(* with fail_silently false.                                               *)
(***************************************************************************)
NoFlags ==
    /\ ~argv.no_input /\ ~argv.raise_error /\ ~argv.noprefix
    /\ argv.from = None /\ argv.bcc = None /\ argv.cc = None
    /\ argv.verbosity = 1

C9_AppendsAtEnd ==
    (JustExpanded /\ PlainLookups) =>
        LET lst == Val(ListAt(lstIdx))
            inp == InputList(lstIdx)
        IN  \A t \in GroupTokens :
                (Count(inp, t) = 1 /\ \A u \in GroupTokens \ {t} : Count(inp, u) = 0)
                => lst = SelectSeq(inp, NotToken) \o get_addresses(t)

\* --cc 'b@x.com, ADMINS' resolved to b@x.com followed by the two admins
C9_Witness ==
    /\ JustExpanded /\ PlainLookups
    /\ lstIdx = 3
    /\ InputList(3) = <<ADDR_B, ADMINS>>
    /\ Val(options.cc) = <<ADDR_B, ROOT, OPS>>
    /\ argv.recipient = <<ADMINS, ADDR_A>>
    /\ recipient_list = <<ADDR_A, ROOT, OPS>>

(***************************************************************************)
(* C10.  Recipient resolution terminates: once the expansion loop is       *)
(* entered it is left again without running out of memory, whatever the    *)
(* lookups return.                                                         *)
(***************************************************************************)
C10_ExpansionTerminates ==
    (pc = "expand") ~> (pc # "expand" /\ raised.type # "MemoryError")
=============================================================================
